---- MODULE Spec2Model ----
(***************************************************************************)
(* Fushimi In-Airy: the multi-tap delay, the Schroeder reverb, the         *)
(* parameter mapper, the FushimiInAiry facade (src/fushimi_plugin.py) and  *)
(* the FushimiInAiryGUI front end (src/fushimi_plugin_demo.py).            *)
(*                                                                         *)
(* Numbers.  Python floats are modelled in fixed point:                    *)
(*   - a sample, a mix level, a linear gain: thousandths (One = 1.0);      *)
(*   - a gain in dB: hundredths of a dB (cdB), so 3.5 dB is 350;           *)
(*   - a time: whole milliseconds; the fixed filter delays: tenths of ms.  *)
(* A product or quotient of floats is the exact product or quotient cut    *)
(* towards zero to the unit (TDiv); int() is the same cut.                 *)
(***************************************************************************)
EXTENDS Integers, Sequences, FiniteSets, TLC

\* ------------------------------------------------------------ bounds
\* Longest input signal, in samples.
MaxLen == 3

\* Most passes of the peak normalizer over one buffer.
MaxPasses == 2

\* Longest delay line, in samples, of a filter called on its own.
MaxDelay == 4

\* ------------------------------------------------------------ numbers
\* The float 1.0 (unity gain, full scale) in thousandths.
One == 1000

Abs(x) == IF x < 0 THEN -x ELSE x

Max2(a, b) == IF a >= b THEN a ELSE b

Min2(a, b) == IF a <= b THEN a ELSE b

\* a / b cut towards zero (b > 0): int() of a float, and the fixed-point cut.
TDiv(a, b) == IF a >= 0 THEN a \div b ELSE -((-a) \div b)

\* sample * factor, both in thousandths.
Mul(a, g) == TDiv(a * g, One)

\* sig * g, element by element (numpy: array * scalar).
Scale(sig, g) == [i \in 1..Len(sig) |-> Mul(sig[i], g)]

\* Clip with the clamp forgotten.
NoClip(v, lo, hi) == v

\* np.clip(v, lo, hi)
Clip(v, lo, hi) == IF v < lo THEN lo ELSE IF v > hi THEN hi ELSE v

\* np.zeros(n)
Zeros(n) == [i \in 1..n |-> 0]

\* max of a non-empty sequence of numbers (Python max([...]))
SeqMax(s) ==
    LET vals == { s[i] : i \in 1..Len(s) }
    IN  CHOOSE m \in vals : \A v \in vals : v <= m

\* np.max(np.abs(sig)) of a non-empty buffer
Peak(sig) == SeqMax([i \in 1..Len(sig) |-> Abs(sig[i])])

\* 10^(-k/20) for k = 0..20 dB, in millionths: the float power function
\* tabulated per dB; DbToLinearPpm interpolates between the entries.
Pow10Table ==
    << 1000000, 891251, 794328, 707946, 630957, 562341, 501187,
       446684, 398107, 354813, 316228, 281838, 251189, 223872,
       199526, 177828, 158489, 141254, 125893, 112202, 100000 >>

\* 10 ** (-n / 2000) in millionths, n >= 0 in cdB (n / 2000 is the exponent).
AttenPpm(n) ==
    LET q == n \div 2000
        r == n % 2000
        k == r \div 100
        f == r % 100
        hi == Pow10Table[k + 1]
        lo == Pow10Table[k + 2]
        m == hi - ((hi - lo) * f) \div 100
    IN  IF q >= 7 THEN 0 ELSE m \div (10 ^ q)

\* 10 ** (cdb / 2000) in millionths: 10 ** (gain_db / 20) for gain_db = cdb/100.
DbToLinearPpm(cdb) ==
    IF cdb <= 0 THEN AttenPpm(-cdb)
    ELSE (1000 * 1000 * 1000) \div Max2(1, AttenPpm(cdb) \div 1000)

\* linear_gain = 10 ** (gain_db / 20), in thousandths.
DbToLinear(cdb) == DbToLinearPpm(cdb) \div 1000

\* int(sample_rate * (ms / 1000.0)): a time in ms as a sample count.
MsToSamples(sample_rate, ms) == TDiv(sample_rate * ms, 1000)

\* int(sample_rate * delay_ms / 1000.0) for a fixed filter delay in tenths of ms.
TenthMsToSamples(sample_rate, tenth_ms) == TDiv(sample_rate * tenth_ms, 10000)

\* Normalize left out: the buffer is handed back as it is.
NormalizeSkipped(sig) == sig

\* Normalize with the "peak > 1.0" test left out: any buffer that is not
\* silent is scaled to peak 1.0.
NormalizeAlways(sig) ==
    LET peak == Peak(sig)
    IN  IF peak > 0
        THEN [i \in 1..Len(sig) |-> TDiv(sig[i] * One, peak)]
        ELSE sig

\* if peak > 1.0: output / peak   (the peak check of every pipeline)
Normalize(sig) ==
    LET peak == Peak(sig)
    IN  IF peak > One
        THEN [i \in 1..Len(sig) |-> TDiv(sig[i] * One, peak)]
        ELSE sig

\* AddAt with "=" written for "+=" on the whole buffer: output = sig.
AddAtAssign(output, start, sig) == sig

\* output[start:start+len(sig)] += sig, start counted from 0; the slice lies
\* inside output.
AddAt(output, start, sig) ==
    [i \in 1..Len(output) |->
        IF i > start /\ i <= start + Len(sig)
        THEN output[i] + sig[i - start]
        ELSE output[i]]

\* ------------------------------------------------------------ gates
\* A gate is a dict with 'gain_db' and one time key: 'time_ms' (a delay tap)
\* or 'decay_ms' (a reverb gate).  key names the time key the dict holds.
Gate(key, ms, cdb) == [key |-> key, ms |-> ms, gain_db |-> cdb]

\* What a call hands back: exc is "none" when it returned, else the exception
\* it raised; out the returned buffer; tail the tail_samples it computed;
\* fb the feedback gains handed to the comb filters; gains the linear gain
\* of each processed gate, in order.
Result(exc, out, tail, fb, gains) ==
    [exc |-> exc, out |-> out, tail |-> tail, fb |-> fb, gains |-> gains]

Raised(exc) == Result(exc, << >>, 0, {}, << >>)

\* ------------------------------------------------------------ filters
\* The loop of allpass_filter from sample i on; buffer_idx counts from 0.
RECURSIVE allpass_loop(_, _, _, _, _, _, _)
allpass_loop(input_signal, delay_samples, gain, i, buffer, buffer_idx, output) ==
    IF i > Len(input_signal) THEN output
    ELSE LET delayed == buffer[buffer_idx + 1]
             y == Mul(-gain, input_signal[i]) + delayed
             w == input_signal[i] + Mul(gain, y)
         IN  allpass_loop(input_signal, delay_samples, gain, i + 1,
                          [buffer EXCEPT ![buffer_idx + 1] = w],
                          (buffer_idx + 1) % delay_samples,
                          [output EXCEPT ![i] = y])

\* allpass_filter with the sign of the gain exchanged:
\* y[n] = g*x[n] + x[n-D] - g*y[n-D].
allpass_filter_sign(input_signal, delay_samples, gain) ==
    allpass_loop(input_signal, delay_samples, -gain, 1,
                 Zeros(delay_samples), 0, Zeros(Len(input_signal)))

allpass_filter(input_signal, delay_samples, gain) ==
    allpass_loop(input_signal, delay_samples, gain, 1,
                 Zeros(delay_samples), 0, Zeros(Len(input_signal)))

\* The loop of comb_filter from sample i on; buffer_idx counts from 0.
RECURSIVE comb_loop(_, _, _, _, _, _, _)
comb_loop(input_signal, delay_samples, feedback_gain, i, buffer, buffer_idx, output) ==
    IF i > Len(input_signal) THEN output
    ELSE LET delayed == buffer[buffer_idx + 1]
             y == input_signal[i] + Mul(feedback_gain, delayed)
         IN  comb_loop(input_signal, delay_samples, feedback_gain, i + 1,
                       [buffer EXCEPT ![buffer_idx + 1] = y],
                       (buffer_idx + 1) % delay_samples,
                       [output EXCEPT ![i] = y])

\* comb_filter with a delay line one sample too long.
comb_filter_long(input_signal, delay_samples, feedback_gain) ==
    comb_loop(input_signal, delay_samples + 1, feedback_gain, 1,
              Zeros(delay_samples + 1), 0, Zeros(Len(input_signal)))

comb_filter(input_signal, delay_samples, feedback_gain) ==
    comb_loop(input_signal, delay_samples, feedback_gain, 1,
              Zeros(delay_samples), 0, Zeros(Len(input_signal)))

\* comb_delays = [29.7, 37.1, 41.1, 43.7] ms, in tenths of a millisecond.
comb_delays == << 297, 371, 411, 437 >>

\* allpass_delays = [5.0, 1.7] ms, in tenths of a millisecond.
allpass_delays == << 50, 17 >>

\* np.mean(comb_delays) = 37.9 ms, in tenths of a millisecond.
mean_comb_delay ==
    (comb_delays[1] + comb_delays[2] + comb_delays[3] + comb_delays[4]) \div 4

\* The for loop of parallel_comb_filters over comb_delays_ms[k..]: each delay
\* with delay_samples > 0 adds its comb output; the others are skipped.
RECURSIVE comb_sum(_, _, _, _, _, _)
comb_sum(input_signal, sample_rate, comb_delays_ms, feedback_gain, k, output) ==
    IF k > Len(comb_delays_ms) THEN output
    ELSE LET delay_samples == TenthMsToSamples(sample_rate, comb_delays_ms[k])
         IN  comb_sum(input_signal, sample_rate, comb_delays_ms, feedback_gain, k + 1,
                      IF delay_samples > 0
                      THEN AddAt(output, 0,
                                 comb_filter(input_signal, delay_samples, feedback_gain))
                      ELSE output)

parallel_comb_filters(input_signal, sample_rate, comb_delays_ms, feedback_gain) ==
    LET output == comb_sum(input_signal, sample_rate, comb_delays_ms, feedback_gain,
                           1, Zeros(Len(input_signal)))
    IN  [i \in 1..Len(output) |-> TDiv(output[i], Len(comb_delays_ms))]

\* The for loop of serial_allpass_filters over allpass_delays_ms[k..].
RECURSIVE allpass_chain(_, _, _, _, _)
allpass_chain(signal, sample_rate, allpass_delays_ms, allpass_gain, k) ==
    IF k > Len(allpass_delays_ms) THEN signal
    ELSE LET delay_samples == TenthMsToSamples(sample_rate, allpass_delays_ms[k])
         IN  allpass_chain(IF delay_samples > 0
                           THEN allpass_filter(signal, delay_samples, allpass_gain)
                           ELSE signal,
                           sample_rate, allpass_delays_ms, allpass_gain, k + 1)

serial_allpass_filters(input_signal, sample_rate, allpass_delays_ms, allpass_gain) ==
    allpass_chain(input_signal, sample_rate, allpass_delays_ms, allpass_gain, 1)

\* allpass_gain = 0.7
allpass_gain == 700

\* ClampFeedback with the clamp forgotten.
NoClampFeedback(g) == g

\* The clamp of the feedback gain: min(feedback_gain, 0.98)
ClampFeedback(g) == Min2(g, 980)

\* feedback_gain of schroeder_reverb, for decay_time_ms /= 0:
\* 10 ** (-3.0 * avg_comb_delay_samples / (decay_time_sec * sample_rate)),
\* then the clamp.  The exponent times 2000 is 6e6 * avg / (decay_ms * rate).
FeedbackGain(sample_rate, decay_time_ms) ==
    LET avg_comb_delay_samples == TenthMsToSamples(sample_rate, mean_comb_delay)
        n == TDiv(6000000 * avg_comb_delay_samples, decay_time_ms * sample_rate)
        raw == AttenPpm(n) \div 1000
    IN  ClampFeedback(raw)

\* schroeder_reverb that lets the filters ring out: the input is padded with
\* one mean comb delay of silence, so the result is longer than the input.
schroeder_reverb_padded(input_signal, sample_rate, decay_time_ms, initial_gain) ==
    IF decay_time_ms * sample_rate = 0 THEN Raised("ZeroDivisionError")
    ELSE LET feedback_gain == FeedbackGain(sample_rate, decay_time_ms)
             scaled_input ==
                 Scale(input_signal, initial_gain)
                     \o Zeros(TenthMsToSamples(sample_rate, mean_comb_delay))
             comb_output == parallel_comb_filters(scaled_input, sample_rate,
                                                  comb_delays, feedback_gain)
             reverb_output == serial_allpass_filters(comb_output, sample_rate,
                                                     allpass_delays, allpass_gain)
         IN  Result("none", reverb_output, 0, {feedback_gain}, << initial_gain >>)

\* schroeder_reverb: decay_time_sec * sample_rate = 0.0 makes the float
\* division of the feedback gain raise ZeroDivisionError.
schroeder_reverb(input_signal, sample_rate, decay_time_ms, initial_gain) ==
    IF decay_time_ms * sample_rate = 0 THEN Raised("ZeroDivisionError")
    ELSE LET feedback_gain == FeedbackGain(sample_rate, decay_time_ms)
             scaled_input == Scale(input_signal, initial_gain)
             comb_output == parallel_comb_filters(scaled_input, sample_rate,
                                                  comb_delays, feedback_gain)
             reverb_output == serial_allpass_filters(comb_output, sample_rate,
                                                     allpass_delays, allpass_gain)
         IN  Result("none", reverb_output, 0, {feedback_gain}, << initial_gain >>)

\* ------------------------------------------------------------ engines
\* [tap['time_ms'] for tap in taps] and its reverb twin: the lookup of a key
\* that a gate lacks raises KeyError.
HasKey(gates, key) == \A k \in 1..Len(gates) : gates[k].key = key

\* MaxMs taking the time of the last gate of the list for the largest.
LastMs(gates) == gates[Len(gates)].ms

\* max([gate[key] for gate in gates]) of a non-empty list with the key
MaxMs(gates) == SeqMax([k \in 1..Len(gates) |-> gates[k].ms])

\* tail_samples = int(sample_rate * (max_delay_ms / 1000.0) + (sample_rate * 0.5))
\* DelayTail without the half second of safety margin.
DelayTailNoMargin(sample_rate, max_delay_ms) ==
    TDiv(sample_rate * max_delay_ms, 1000)

DelayTail(sample_rate, max_delay_ms) ==
    TDiv(2 * sample_rate * max_delay_ms + 1000 * sample_rate, 2000)

\* tap_sum with the running output, not the input, delayed by each tap:
\* output_signal[start:end] += output_signal[:len(input_signal)] * linear_gain.
RECURSIVE tap_sum_of_output(_, _, _, _, _)
tap_sum_of_output(input_signal, sample_rate, taps, k, output_signal) ==
    IF k > Len(taps) THEN output_signal
    ELSE tap_sum_of_output(input_signal, sample_rate, taps, k + 1,
                           AddAt(output_signal, MsToSamples(sample_rate, taps[k].ms),
                                 Scale(SubSeq(output_signal, 1, Len(input_signal)),
                                       DbToLinear(taps[k].gain_db))))

\* The for loop of apply_multi_tap_delay over taps[k..]: every tap is added at
\* its offset, none is skipped.
RECURSIVE tap_sum(_, _, _, _, _)
tap_sum(input_signal, sample_rate, taps, k, output_signal) ==
    IF k > Len(taps) THEN output_signal
    ELSE LET linear_gain == DbToLinear(taps[k].gain_db)
             delay_samples == MsToSamples(sample_rate, taps[k].ms)
         IN  tap_sum(input_signal, sample_rate, taps, k + 1,
                     AddAt(output_signal, delay_samples,
                           Scale(input_signal, linear_gain)))

\* apply_multi_tap_delay (src/fushimi_plugin.py, and the same function in
\* src/delay/figma_delay.py): max() of an empty list raises ValueError.
apply_multi_tap_delay(input_signal, sample_rate, taps, dry_mix) ==
    IF Len(taps) = 0 THEN Raised("ValueError")
    ELSE IF ~HasKey(taps, "time_ms") THEN Raised("KeyError")
    ELSE LET tail_samples == DelayTail(sample_rate, MaxMs(taps))
             total_length == Len(input_signal) + tail_samples
             dry == AddAt(Zeros(total_length), 0, Scale(input_signal, dry_mix))
             summed == tap_sum(input_signal, sample_rate, taps, 1, dry)
         IN  Result("none", Normalize(summed), tail_samples, {},
                    [k \in 1..Len(taps) |-> DbToLinear(taps[k].gain_db)])

\* tail_samples = int(sample_rate * (max_decay_ms / 1000.0) * tail_factor)
ReverbTail(sample_rate, max_decay_ms, tail_factor) ==
    TDiv(sample_rate * max_decay_ms * tail_factor, 1000 * 1000)

\* ReverbGain with the np.clip left out.
ReverbGainUnclamped(cdb) == DbToLinear(cdb)

\* linear_gain = np.clip(10 ** (gain_db / 20.0), 0.0, 1.0)
ReverbGain(cdb) == Clip(DbToLinear(cdb), 0, One)

\* sig[:end_idx]
Prefix(sig, end_idx) == [i \in 1..end_idx |-> sig[i]]

\* One pass of the for loop of apply_multi_instance_reverb: acc is the Result
\* so far (its out is output_signal), rev what schroeder_reverb handed back
\* for the gate.  end_idx = min(len(reverb_signal), total_length);
\* output_signal[:end_idx] += reverb_signal[:end_idx].
add_reverb(acc, rev) ==
    IF rev.exc # "none" THEN Raised(rev.exc)
    ELSE Result("none",
                AddAt(acc.out, 0, Prefix(rev.out, Min2(Len(rev.out), Len(acc.out)))),
                acc.tail, acc.fb \cup rev.fb, acc.gains \o rev.gains)

\* The for loop of apply_multi_instance_reverb over reverb_gates[k..].  A gate
\* whose schroeder_reverb raises ends the call with that exception.
RECURSIVE gate_sum(_, _, _, _, _)
gate_sum(input_signal, sample_rate, reverb_gates, k, acc) ==
    IF k > Len(reverb_gates) \/ acc.exc # "none" THEN acc
    ELSE gate_sum(input_signal, sample_rate, reverb_gates, k + 1,
                  add_reverb(acc,
                             schroeder_reverb(input_signal, sample_rate,
                                              reverb_gates[k].ms,
                                              ReverbGain(reverb_gates[k].gain_db))))

\* The peak check at the end of an engine, on what the loop handed back.
NormalizeResult(res) ==
    IF res.exc # "none" THEN res ELSE [res EXCEPT !.out = Normalize(res.out)]

\* apply_multi_instance_reverb (src/reverb/reverb_engine.py): max() of an
\* empty list raises ValueError.
apply_multi_instance_reverb(input_signal, sample_rate, reverb_gates, dry_mix, tail_factor) ==
    IF Len(reverb_gates) = 0 THEN Raised("ValueError")
    ELSE IF ~HasKey(reverb_gates, "decay_ms") THEN Raised("KeyError")
    ELSE LET tail_samples == ReverbTail(sample_rate, MaxMs(reverb_gates), tail_factor)
             total_length == Len(input_signal) + tail_samples
             dry == AddAt(Zeros(total_length), 0, Scale(input_signal, dry_mix))
         IN  NormalizeResult(gate_sum(input_signal, sample_rate, reverb_gates, 1,
                                      Result("none", dry, tail_samples, {}, << >>)))

\* ------------------------------------------------------------ parameter mapper
\* 20 * np.log10(ratio) in cdB for a ratio > 0 given in millionths: the
\* inverse of DbToLinearPpm, interpolating in the same table.
RECURSIVE LinearToDb(_)
LinearToDb(ppm) ==
    IF ppm > 1000000
    THEN -LinearToDb((1000 * 1000 * 1000) \div (ppm \div 1000))
    ELSE IF ppm < 100000
    THEN LinearToDb(ppm * 10) - 2000
    ELSE LET k == CHOOSE j \in 0..19 :
                     Pow10Table[j + 1] >= ppm /\ ppm >= Pow10Table[j + 2]
             hi == Pow10Table[k + 1]
             lo == Pow10Table[k + 2]
         IN  -(100 * k + ((hi - ppm) * 100) \div (hi - lo))

\* The volume branch shared by both mappers and by the GUI:
\* min_gain_db when volume_percent <= 0.1, else 20 * log10(volume_percent / 100)
\* clipped to [min_gain_db, max_gain_db].  ratio_ppm is volume_percent / 100
\* in millionths, so volume_percent <= 0.1 is ratio_ppm <= 1000.
VolumeToDb(ratio_ppm, min_gain_db, max_gain_db) ==
    IF ratio_ppm <= 1000 THEN min_gain_db
    ELSE Clip(LinearToDb(ratio_ppm), min_gain_db, max_gain_db)

\* np.clip(pos / frame, 0.0, 1.0) in millionths (frame > 0).
Norm(pos, frame) == Clip(TDiv(pos * 1000000, frame), 0, 1000000)

\* figma_to_delay_params with its default max_time_ms, max_gain_db, min_gain_db.
figma_to_delay_params(x_pos, y_pos, frame_width, frame_height) ==
    LET max_time_ms == 4000
        max_gain_db == 350
        min_gain_db == -6000
        x_norm == Norm(x_pos, frame_width)
        y_norm == Norm(y_pos, frame_height)
        time_ms == TDiv(x_norm * (max_time_ms \div 1000), 1000)
        ratio_ppm == TDiv((1000000 - y_norm) * 150, 100)
    IN  Gate("time_ms", time_ms, VolumeToDb(ratio_ppm, min_gain_db, max_gain_db))

\* figma_to_reverb_params with its default max_decay_ms, max_gain_db, min_gain_db.
figma_to_reverb_params(x_pos, y_pos, frame_width, frame_height) ==
    LET max_decay_ms == 10000
        max_gain_db == 0
        min_gain_db == -6000
        x_norm == Norm(x_pos, frame_width)
        y_norm == Norm(y_pos, frame_height)
        decay_ms == TDiv(x_norm * (max_decay_ms \div 1000), 1000)
        ratio_ppm == 1000000 - y_norm
    IN  Gate("decay_ms", decay_ms, VolumeToDb(ratio_ppm, min_gain_db, max_gain_db))

\* ------------------------------------------------------------ state
VARIABLES
    entry,         \* the program that runs: "facade", "gui" or "script"
    audio_data,    \* the loaded mono input signal
    fs,            \* its sample rate
    mode,          \* FushimiInAiry.mode
    gates,         \* FushimiInAiry.gates; the gate list of a script
    dry_mix,       \* FushimiInAiry.dry_mix; the dry_mix of a script
    wet_mix,       \* FushimiInAiry.wet_mix
    tail_factor,   \* FushimiInAiry.tail_factor; FushimiInAiryGUI.tail_factor
    current_mode,  \* FushimiInAiryGUI.current_mode
    gate_coords,   \* canvas position of each gate image, see GuiPos
    dry_knob,      \* canvas position of the dry knob, thousandths below KNOB_TOP
    wet_knob,      \* canvas position of the wet knob, thousandths below KNOB_TOP
    switched,      \* the mode set by the most recent successful switch, or "none"
    last,          \* what the most recent operation did, see Outcome
    figma_in,      \* the arguments of the most recent mapper call, see FigmaCall
    figma_out,     \* the gate it returned, as a list of one gate
    call,          \* the arguments of the most recent direct call of a DSP
                   \* function (a filter, the normalizer, an engine), see DspCall
    ret            \* what that call, or those calls, handed back

vars ==
    << entry, audio_data, fs, mode, gates, dry_mix, wet_mix, tail_factor,
       current_mode, gate_coords, dry_knob, wet_knob, switched, last,
       figma_in, figma_out, call, ret >>

facade_vars == << mode, gates, dry_mix, wet_mix, tail_factor >>

gui_vars == << current_mode, gate_coords, dry_knob, wet_knob >>

figma_vars == << figma_in, figma_out >>

dsp_vars == << call, ret >>

\* ------------------------------------------------------------ inputs
\* Sample values of the input signals: one above full scale, one below.
Samples == { -1500, 600 }

\* The input signals: a first sample from Samples, then samples that alternate
\* between 0.6 and that sample.
Signals ==
    { [i \in 1..n |-> IF i % 2 = 1 THEN s ELSE 600] : n \in 1..MaxLen, s \in Samples }

\* Sample rates: 1 Hz (every delay under one sample), 100 Hz (the comb
\* filters run, the allpass delays are under one sample), 200 Hz (the first
\* allpass filter runs too).
SampleRates == { 1, 100, 200 }

\* Dry and wet mix levels in [0, 1].
Mixes == { 0, 500, One }

TailFactors == { 0, 400 }

\* Gate lists handed to set_gates_manual and to the engines.
tapA == Gate("time_ms", 0, 0)

tapB == Gate("time_ms", 15, -600)

tapC == Gate("time_ms", 500, 350)

gateA == Gate("decay_ms", 2000, -300)

gateB == Gate("decay_ms", 100, -6000)

gateC == Gate("decay_ms", 0, 0)

GateLists ==
    { << >>, << tapA >>, << tapB, tapC >>, << tapC, tapB >>,
      << gateA >>, << gateA, gateB >>, << gateB >>, << gateC >> }

\* Arguments of FushimiInAiry(mode=...) and set_mode(...): the two modes and
\* a string that is neither.
ModeArgs == { "delay", "reverb", "chorus" }

\* ------------------------------------------------------------ outcome
\* op: the operation; pipeline: the engine it dispatched to ("none" when it
\* ran neither); wrote: the output file it wrote and played ("none" when it
\* wrote nothing); res: the Result it returned or raised.
Outcome(op, pipeline, wrote, res) ==
    [op |-> op, pipeline |-> pipeline, wrote |-> wrote, res |-> res]

\* A buffer handed back as it is.
Returned(out) == Result("none", out, 0, {}, << >>)

\* An operation that returns None, runs no pipeline and writes no file.
Quiet == Outcome("none", "none", "none", Returned(<< >>))

\* A direct call of one DSP function: fn names it, args are its arguments.
DspCall(fn, args) == [fn |-> fn, args |-> args]

\* No direct call yet.
NoCall == DspCall("none", << >>)

\* ------------------------------------------------------------ facade
\* FushimiInAiry.set_mode: the mode after the call and what the call raised.
set_mode(old_mode, new_mode) ==
    IF new_mode \notin { "delay", "reverb" }
    THEN [mode |-> old_mode, exc |-> "ValueError"]
    ELSE [mode |-> new_mode, exc |-> "none"]

\* Dispatch with the two branches exchanged.
DispatchSwapped(m) == IF m = "delay" THEN "reverb" ELSE "delay"

\* The if/else of process_audio: 'delay' runs the delay, anything else the reverb.
Dispatch(m) == IF m = "delay" THEN "delay" ELSE "reverb"

\* return output * self.wet_mix
ApplyWetMix(output, wet) ==
    IF output.exc # "none" THEN output
    ELSE [output EXCEPT !.out = Scale(output.out, wet)]

\* FushimiInAiry.process_audio on the facade's fields.
process_audio(m, gs, dry, wet, tf, input_signal, sample_rate) ==
    IF Len(gs) = 0
    THEN Outcome("process_audio", "none", "none", Returned(input_signal))
    ELSE Outcome("process_audio", Dispatch(m), "none",
                 ApplyWetMix(IF Dispatch(m) = "delay"
                             THEN apply_multi_tap_delay(input_signal, sample_rate,
                                                        gs, dry)
                             ELSE apply_multi_instance_reverb(input_signal, sample_rate,
                                                              gs, dry, tf),
                             wet))

\* plugin = FushimiInAiry(mode=MODE): __init__ stores the argument as it is.
FacadeInit ==
    /\ entry = "facade"
    /\ audio_data \in Signals
    /\ fs \in SampleRates
    /\ mode \in ModeArgs
    /\ gates = << >>
    /\ dry_mix = One
    /\ wet_mix = One
    /\ tail_factor = 400
    /\ current_mode = "delay"
    /\ gate_coords = << >>
    /\ dry_knob = 0
    /\ wet_knob = 0
    /\ switched = "none"
    /\ last = Quiet
    /\ figma_in = << >>
    /\ figma_out = << >>
    /\ call = NoCall
    /\ ret = << >>

FacadeSetMode(new_mode) ==
    /\ entry = "facade"
    /\ LET r == set_mode(mode, new_mode)
       IN  /\ mode' = r.mode
           /\ switched' = IF r.exc = "none" THEN new_mode ELSE switched
           /\ last' = IF r.exc = "none" THEN Quiet
                      ELSE Outcome("set_mode", "none", "none", Raised(r.exc))
    /\ UNCHANGED << figma_vars, dsp_vars, entry, audio_data, fs, gates, dry_mix, wet_mix, tail_factor, gui_vars >>

FacadeSetGatesManual(gs) ==
    /\ entry = "facade"
    /\ gates' = gs
    /\ last' = Quiet
    /\ UNCHANGED << figma_vars, dsp_vars, entry, audio_data, fs, mode, dry_mix, wet_mix, tail_factor,
                    gui_vars, switched >>

\* plugin.dry_mix = ...
FacadeSetDryMix(v) ==
    /\ entry = "facade"
    /\ dry_mix' = v
    /\ last' = Quiet
    /\ UNCHANGED << figma_vars, dsp_vars, entry, audio_data, fs, mode, gates, wet_mix, tail_factor,
                    gui_vars, switched >>

\* plugin.wet_mix = ...
FacadeSetWetMix(v) ==
    /\ entry = "facade"
    /\ wet_mix' = v
    /\ last' = Quiet
    /\ UNCHANGED << figma_vars, dsp_vars, entry, audio_data, fs, mode, gates, dry_mix, tail_factor,
                    gui_vars, switched >>

\* plugin.tail_factor = ...
FacadeSetTailFactor(v) ==
    /\ entry = "facade"
    /\ tail_factor' = v
    /\ last' = Quiet
    /\ UNCHANGED << figma_vars, dsp_vars, entry, audio_data, fs, mode, gates, dry_mix, wet_mix,
                    gui_vars, switched >>

\* FacadeProcessAudio with the dry gain applied to the caller's buffer in
\* place (input_signal *= dry_mix) on the way into the engine.
FacadeProcessAudioInPlace ==
    /\ entry = "facade"
    /\ last' = process_audio(mode, gates, dry_mix, wet_mix, tail_factor, audio_data, fs)
    /\ audio_data' = IF Len(gates) = 0 THEN audio_data ELSE Scale(audio_data, dry_mix)
    /\ UNCHANGED << figma_vars, dsp_vars, entry, fs, facade_vars, gui_vars, switched >>

\* processed_audio = plugin.process_audio(data, fs)
FacadeProcessAudio ==
    /\ entry = "facade"
    /\ last' = process_audio(mode, gates, dry_mix, wet_mix, tail_factor, audio_data, fs)
    /\ UNCHANGED << figma_vars, dsp_vars, entry, audio_data, fs, facade_vars, gui_vars, switched >>

\* ------------------------------------------------------------ scripts
\* src/delay/figma_delay.py and src/reverb/test_reverb.py call an engine
\* directly on a loaded file, with a gate list and mix written in the script.
ScriptInit ==
    /\ entry = "script"
    /\ audio_data \in Signals
    /\ fs \in SampleRates
    /\ mode = "delay"
    /\ gates \in GateLists
    /\ dry_mix \in Mixes
    /\ wet_mix = One
    /\ tail_factor \in TailFactors
    /\ current_mode = "delay"
    /\ gate_coords = << >>
    /\ dry_knob = 0
    /\ wet_knob = 0
    /\ switched = "none"
    /\ last = Quiet
    /\ figma_in = << >>
    /\ figma_out = << >>
    /\ call = NoCall
    /\ ret = << >>

\* processed_audio = apply_multi_tap_delay(data, fs, my_taps, dry_mix=...)
ScriptMultiTapDelay ==
    /\ entry = "script"
    /\ last' = Outcome("apply_multi_tap_delay", "delay", "none",
                       apply_multi_tap_delay(audio_data, fs, gates, dry_mix))
    /\ UNCHANGED << figma_vars, dsp_vars, entry, audio_data, fs, facade_vars, gui_vars, switched >>

\* processed_audio = apply_multi_instance_reverb(data, fs, reverb_gates, dry_mix=...)
ScriptMultiInstanceReverb ==
    /\ entry = "script"
    /\ last' = Outcome("apply_multi_instance_reverb", "reverb", "none",
                       apply_multi_instance_reverb(audio_data, fs, gates, dry_mix,
                                                   tail_factor))
    /\ UNCHANGED << figma_vars, dsp_vars, entry, audio_data, fs, facade_vars, gui_vars, switched >>

\* ------------------------------------------------------------ GUI
\* The gate images on the canvas: self.gate_objects holds five, the model two.
GateIds == { 1, 2 }

\* A gate position inside the drag area, in thousandths:
\* x is (canvas x - LEFT) / (RIGHT - LEFT), y is (canvas y - TOP) / (BOTTOM - TOP).
GuiPos(x, y) == [x |-> x, y |-> y]

\* The start position of gate i: x = LEFT + 150 * i * scale_factor, y = BOTTOM;
\* RIGHT - LEFT is 1525 * scale_factor.
StartPos(i) == GuiPos(TDiv(150 * i * 1000, 1525), 1000)

\* Pointer positions of drag events, in the same units; some lie outside the area.
DragEvents == { GuiPos(-100, -100), GuiPos(10, 500), GuiPos(1000, 1100) }

\* Pointer positions of knob drags, thousandths below KNOB_TOP.
KnobEvents == { -100, 500, 1100 }

\* drag_gate: max(LEFT, min(event.x, RIGHT)), max(TOP, min(event.y, BOTTOM))
drag_gate(event) == GuiPos(Max2(0, Min2(event.x, 1000)), Max2(0, Min2(event.y, 1000)))

\* drag_dry, drag_wet: max(KNOB_TOP, min(event.y, KNOB_BOTTOM))
drag_knob(event_y) == Max2(0, Min2(event_y, 1000))

\* 1.0 - ((knob_y - KNOB_TOP) / knob_range)
KnobMix(knob) == One - knob

\* gain_db = 20 * np.log10(volume_percent / 100.0) if volume_percent > 0.1 else -60
GuiVolumeToDb(ratio_ppm) ==
    IF ratio_ppm > 1000 THEN LinearToDb(ratio_ppm) ELSE -6000

\* The tap of one gate in process_delay: time_ms = num_beats * ms_per_beat with
\* bpm = 120 (4 beats of 500 ms across the area), volume 0..150 %.
DelayTapOf(pos) ==
    Gate("time_ms", TDiv(pos.x * 4 * 500, 1000), GuiVolumeToDb((1000 - pos.y) * 1500))

\* The gate of one gate image in process_reverb: decay 0..10000 ms, volume 0..100 %.
ReverbGateOf(pos) ==
    Gate("decay_ms", TDiv(pos.x * 10000, 1000), GuiVolumeToDb((1000 - pos.y) * 1000))

\* The for loop of apply_delay_dsp over taps[k..]: a tap is added only if
\* shift + len(input_signal) < len(output).
RECURSIVE gui_tap_sum(_, _, _, _, _, _)
gui_tap_sum(input_signal, sample_rate, taps, wet, k, output) ==
    IF k > Len(taps) THEN output
    ELSE LET gain == Mul(DbToLinear(taps[k].gain_db), wet)
             shift == MsToSamples(sample_rate, taps[k].ms)
         IN  gui_tap_sum(input_signal, sample_rate, taps, wet, k + 1,
                         IF shift + Len(input_signal) < Len(output)
                         THEN AddAt(output, shift, Scale(input_signal, gain))
                         ELSE output)

\* FushimiInAiryGUI.apply_delay_dsp, with self.fs as sample_rate.
apply_delay_dsp(input_signal, taps, dry, wet, sample_rate) ==
    LET max_delay == IF Len(taps) > 0 THEN MaxMs(taps) ELSE 0
        tail == DelayTail(sample_rate, max_delay)
        zeros == Zeros(Len(input_signal) + tail)
        dry_out == AddAt(zeros, 0, Scale(input_signal, dry))
        output == gui_tap_sum(input_signal, sample_rate, taps, wet, 1, dry_out)
    IN  Result("none", Normalize(output), tail, {},
               [k \in 1..Len(taps) |-> Mul(DbToLinear(taps[k].gain_db), wet)])

\* active_gates = [g for g in reverb_gates if g['gain_db'] > -50]
RECURSIVE ActiveGates(_)
ActiveGates(reverb_gates) ==
    IF Len(reverb_gates) = 0 THEN << >>
    ELSE IF Head(reverb_gates).gain_db > -5000
    THEN << Head(reverb_gates) >> \o ActiveGates(Tail(reverb_gates))
    ELSE ActiveGates(Tail(reverb_gates))

\* The end of apply_reverb_dsp, on what the engine handed back: a zero
\* buffer of the engine's length, plus the dry signal, plus the wet engine
\* output, then the peak check.
mix_reverb(input_signal, full_output, dry, wet) ==
    IF full_output.exc # "none" THEN full_output
    ELSE [full_output EXCEPT !.out =
            Normalize(AddAt(AddAt(Zeros(Len(full_output.out)), 0,
                                  Scale(input_signal, dry)),
                            0, Scale(full_output.out, wet)))]

\* reverb_dsp_active with the engine given the dry mix too (dry_mix=dry), so
\* that the dry signal enters the output twice.
reverb_dsp_dry_twice(input_signal, active_gates, dry, wet, sample_rate, tf) ==
    IF Len(active_gates) = 0 THEN Returned(input_signal)
    ELSE mix_reverb(input_signal,
                    apply_multi_instance_reverb(input_signal, sample_rate,
                                                active_gates, dry, tf),
                    dry, wet)

\* apply_reverb_dsp after its filter: no active gate returns the input; else
\* the engine runs with dry_mix=0.0.
reverb_dsp_active(input_signal, active_gates, dry, wet, sample_rate, tf) ==
    IF Len(active_gates) = 0 THEN Returned(input_signal)
    ELSE mix_reverb(input_signal,
                    apply_multi_instance_reverb(input_signal, sample_rate,
                                                active_gates, 0, tf),
                    dry, wet)

\* FushimiInAiryGUI.apply_reverb_dsp, with self.fs and self.tail_factor.
apply_reverb_dsp(input_signal, reverb_gates, dry, wet, sample_rate, tf) ==
    reverb_dsp_active(input_signal, ActiveGates(reverb_gates), dry, wet,
                      sample_rate, tf)

\* write_and_play with the write and the play left out.
no_write_and_play(op, cm, processed) == Outcome(op, cm, "none", processed)

\* The end of process_and_play: sf.write and pygame play of the mode's output
\* file (not reached if the pipeline raised).
write_and_play(op, cm, processed) ==
    Outcome(op, cm,
            IF processed.exc # "none" THEN "none"
            ELSE IF cm = "delay" THEN "delay_output_file" ELSE "reverb_output_file",
            processed)

\* FushimiInAiryGUI.process_and_play: the pipeline of the current mode
\* (process_delay or process_reverb), then the write and the play.
process_and_play(op, cm, coords, dk, wk, input_signal, sample_rate, tf) ==
    write_and_play(op, cm,
        IF cm = "delay"
        THEN apply_delay_dsp(input_signal,
                             [k \in 1..Len(coords) |-> DelayTapOf(coords[k])],
                             KnobMix(dk), KnobMix(wk), sample_rate)
        ELSE apply_reverb_dsp(input_signal,
                              [k \in 1..Len(coords) |-> ReverbGateOf(coords[k])],
                              KnobMix(dk), KnobMix(wk), sample_rate, tf))

\* FushimiInAiryGUI.__init__.  self.fs is 44100 in the source; the model runs
\* the GUI at a rate of SampleRates at which 0.5 s and every comb delay are
\* at least one sample, as they are at 44100 Hz.
GuiInit ==
    /\ entry = "gui"
    /\ audio_data \in Signals
    /\ fs \in SampleRates \ { 1 }
    /\ mode = "delay"
    /\ gates = << >>
    /\ dry_mix = One
    /\ wet_mix = One
    /\ tail_factor = 100
    /\ current_mode = "delay"
    /\ gate_coords = [i \in GateIds |-> StartPos(i)]
    /\ dry_knob = 0
    /\ wet_knob = 0
    /\ switched = "none"
    /\ last = Quiet
    /\ figma_in = << >>
    /\ figma_out = << >>
    /\ call = NoCall
    /\ ret = << >>

GuiDragGate(k, event) ==
    /\ entry = "gui"
    /\ gate_coords' = [gate_coords EXCEPT ![k] = drag_gate(event)]
    /\ last' = Quiet
    /\ UNCHANGED << figma_vars, dsp_vars, entry, audio_data, fs, facade_vars, current_mode, dry_knob,
                    wet_knob, switched >>

GuiDragDry(event_y) ==
    /\ entry = "gui"
    /\ dry_knob' = drag_knob(event_y)
    /\ last' = Quiet
    /\ UNCHANGED << figma_vars, dsp_vars, entry, audio_data, fs, facade_vars, current_mode, gate_coords,
                    wet_knob, switched >>

GuiDragWet(event_y) ==
    /\ entry = "gui"
    /\ wet_knob' = drag_knob(event_y)
    /\ last' = Quiet
    /\ UNCHANGED << figma_vars, dsp_vars, entry, audio_data, fs, facade_vars, current_mode, gate_coords,
                    dry_knob, switched >>

\* <ButtonRelease-1> on a gate or a knob
GuiProcessAndPlay ==
    /\ entry = "gui"
    /\ last' = process_and_play("process_and_play", current_mode, gate_coords,
                                dry_knob, wet_knob, audio_data, fs, tail_factor)
    /\ UNCHANGED << figma_vars, dsp_vars, entry, audio_data, fs, facade_vars, gui_vars, switched >>

\* The other mode.
Toggled(cm) == IF cm = "delay" THEN "reverb" ELSE "delay"

\* FushimiInAiryGUI.toggle_mode (key M, or a click on the mode switch): flips
\* the mode, then calls process_and_play(None).
GuiToggleMode ==
    /\ entry = "gui"
    /\ current_mode' = Toggled(current_mode)
    /\ switched' = current_mode'
    /\ last' = process_and_play("toggle_mode", current_mode', gate_coords,
                                dry_knob, wet_knob, audio_data, fs, tail_factor)
    /\ UNCHANGED << figma_vars, dsp_vars, entry, audio_data, fs, facade_vars, gate_coords, dry_knob, wet_knob >>

\* ------------------------------------------------------------ specification
Init == FacadeInit \/ ScriptInit \/ GuiInit

Next ==
    \/ \E m \in ModeArgs : FacadeSetMode(m)
    \/ \E gs \in GateLists : FacadeSetGatesManual(gs)
    \/ \E v \in Mixes : FacadeSetDryMix(v)
    \/ \E v \in Mixes : FacadeSetWetMix(v)
    \/ \E v \in TailFactors : FacadeSetTailFactor(v)
    \/ FacadeProcessAudio
    \/ ScriptMultiTapDelay
    \/ ScriptMultiInstanceReverb
    \/ \E k \in GateIds, e \in DragEvents : GuiDragGate(k, e)
    \/ \E y \in KnobEvents : GuiDragDry(y)
    \/ \E y \in KnobEvents : GuiDragWet(y)
    \/ GuiProcessAndPlay
    \/ GuiToggleMode

Spec == Init /\ [][Next]_vars

\* ------------------------------------------------------------ mapper calls
\* The two mappers as functions of their arguments: Init holds no call yet,
\* each step calls one mapper on a position and a frame.
FigmaCall(mapper, x_pos, y_pos, frame_width, frame_height) ==
    [mapper |-> mapper, x_pos |-> x_pos, y_pos |-> y_pos,
     frame_width |-> frame_width, frame_height |-> frame_height]

\* Frames (width, height) and positions; some positions lie outside the frame.
Frames == { << 4, 2000 >>, << 1000, 800 >> }

XPositions == { -1, 0, 1, 2, 4, 5, 900 }

YPositions == { -1, 0, 100, 400, 700, 1000, 1997, 1999, 2000, 2001 }

MapperInit ==
    /\ entry = "mapper"
    /\ audio_data = << >>
    /\ fs = 1
    /\ mode = "delay"
    /\ gates = << >>
    /\ dry_mix = One
    /\ wet_mix = One
    /\ tail_factor = 0
    /\ current_mode = "delay"
    /\ gate_coords = << >>
    /\ dry_knob = 0
    /\ wet_knob = 0
    /\ switched = "none"
    /\ last = Quiet
    /\ figma_in = << >>
    /\ figma_out = << >>
    /\ call = NoCall
    /\ ret = << >>

MapperDelay(x, y, frame) ==
    /\ entry = "mapper"
    /\ figma_in' = << FigmaCall("figma_to_delay_params", x, y, frame[1], frame[2]) >>
    /\ figma_out' = << figma_to_delay_params(x, y, frame[1], frame[2]) >>
    /\ UNCHANGED << entry, audio_data, fs, facade_vars, gui_vars, switched, last, dsp_vars >>

MapperReverb(x, y, frame) ==
    /\ entry = "mapper"
    /\ figma_in' = << FigmaCall("figma_to_reverb_params", x, y, frame[1], frame[2]) >>
    /\ figma_out' = << figma_to_reverb_params(x, y, frame[1], frame[2]) >>
    /\ UNCHANGED << entry, audio_data, fs, facade_vars, gui_vars, switched, last, dsp_vars >>

MapperNext ==
    \/ \E x \in XPositions, y \in YPositions, f \in Frames : MapperDelay(x, y, f)
    \/ \E x \in XPositions, y \in YPositions, f \in Frames : MapperReverb(x, y, f)

SpecMapper == MapperInit /\ [][MapperNext]_vars

\* ------------------------------------------------------------ direct calls
\* The DSP functions called on their own, as the test scripts do
\* (src/delay/test.py, src/reverb/test_reverb.py): entry names the function
\* under call.
DspPrograms ==
    { "normalizer", "order", "additivity", "scenario", "filters", "conversion",
      "instances", "ring" }

DspInit ==
    /\ entry \in DspPrograms
    /\ audio_data = << >>
    /\ fs = 1
    /\ mode = "delay"
    /\ gates = << >>
    /\ dry_mix = One
    /\ wet_mix = One
    /\ tail_factor = 0
    /\ current_mode = "delay"
    /\ gate_coords = << >>
    /\ dry_knob = 0
    /\ wet_knob = 0
    /\ switched = "none"
    /\ last = Quiet
    /\ figma_in = << >>
    /\ figma_out = << >>
    /\ call = NoCall
    /\ ret = << >>

dsp_frame ==
    UNCHANGED << entry, audio_data, fs, facade_vars, gui_vars, switched, last, figma_vars >>

\* Buffers handed to the normalizer: the input signals, silence, a buffer at
\* full scale, buffers over it.
Buffers ==
    Signals \cup { Zeros(n) : n \in 1..MaxLen }
            \cup { << One, -One >>, << 1, 3000, -7 >>, << 1001 >>, << -999, 4 >> }

\* A buffer reaches the peak check of a pipeline.
NormalizerLoad(buf) ==
    /\ entry = "normalizer"
    /\ call' = DspCall("normalize", buf)
    /\ ret' = << >>
    /\ dsp_frame

\* One pass of the peak check over the buffer, or over what the pass before
\* it handed back.
NormalizerPass ==
    /\ entry = "normalizer"
    /\ call.fn = "normalize"
    /\ Len(ret) < MaxPasses
    /\ ret' = Append(ret, Normalize(IF ret = << >> THEN call.args ELSE ret[Len(ret)]))
    /\ UNCHANGED call
    /\ dsp_frame

\* The orders of a list of n gates.
Orders(n) == { p \in [1..n -> 1..n] : \A i, j \in 1..n : p[i] = p[j] => i = j }

\* The gate list in the order p.
Reordered(gs, p) == [k \in 1..Len(gs) |-> gs[p[k]]]

\* Tap lists and reverb gate lists of one to three gates; gateC has decay 0.
TapLists == { << tapA >>, << tapB >>, << tapA, tapB >>, << tapB, tapC >>, << tapA, tapB, tapC >> }

ReverbGateLists ==
    { << gateA >>, << gateA, gateB >>, << gateA, gateC >>,
      << gateA, gateB, Gate("decay_ms", 700, 0) >> }

\* The arguments of the engine call a script makes, and the same gates in a
\* second order.
OrderLoad(fn, sig, sample_rate, gs, p, dry, tf) ==
    /\ entry = "order"
    /\ call = NoCall
    /\ call' = DspCall(fn, [input_signal |-> sig, sample_rate |-> sample_rate,
                            gates |-> gs, reordered |-> Reordered(gs, p),
                            dry_mix |-> dry, tail_factor |-> tf])
    /\ ret' = << >>
    /\ dsp_frame

\* apply_multi_tap_delay on the taps in both orders.
OrderRunDelay ==
    /\ entry = "order"
    /\ call.fn = "apply_multi_tap_delay"
    /\ ret = << >>
    /\ ret' = << apply_multi_tap_delay(call.args.input_signal, call.args.sample_rate,
                                       call.args.gates, call.args.dry_mix),
                 apply_multi_tap_delay(call.args.input_signal, call.args.sample_rate,
                                       call.args.reordered, call.args.dry_mix) >>
    /\ UNCHANGED call
    /\ dsp_frame

\* apply_multi_instance_reverb on the gates in both orders.
OrderRunReverb ==
    /\ entry = "order"
    /\ call.fn = "apply_multi_instance_reverb"
    /\ ret = << >>
    /\ ret' = << apply_multi_instance_reverb(call.args.input_signal,
                                             call.args.sample_rate, call.args.gates,
                                             call.args.dry_mix, call.args.tail_factor),
                 apply_multi_instance_reverb(call.args.input_signal,
                                             call.args.sample_rate, call.args.reordered,
                                             call.args.dry_mix, call.args.tail_factor) >>
    /\ UNCHANGED call
    /\ dsp_frame

\* A quiet early tap: 10 ms at -20 dB.
tapD == Gate("time_ms", 10, -2000)

\* Tap sets, as lists; two of them are disjoint if they share no tap.
TapSets ==
    { << >>, << tapA >>, << tapB >>, << tapC >>, << tapD >>,
      << tapB, tapD >>, << tapA, tapC >> }

Disjoint(A, B) == \A i \in 1..Len(A), j \in 1..Len(B) : A[i] # B[j]

\* The arguments of the three delay calls a script makes: the taps of A and
\* of B together, those of A, those of B.
SplitLoad(sig, sample_rate, A, B, dry) ==
    /\ entry = "additivity"
    /\ call = NoCall
    /\ Disjoint(A, B)
    /\ call' = DspCall("apply_multi_tap_delay",
                       [input_signal |-> sig, sample_rate |-> sample_rate,
                        A |-> A, B |-> B, dry_mix |-> dry])
    /\ ret' = << >>
    /\ dsp_frame

\* apply_multi_tap_delay on A union B, on A and on B.
SplitRun ==
    /\ entry = "additivity"
    /\ call.fn = "apply_multi_tap_delay"
    /\ ret = << >>
    /\ ret' = << apply_multi_tap_delay(call.args.input_signal, call.args.sample_rate,
                                       call.args.A \o call.args.B, call.args.dry_mix),
                 apply_multi_tap_delay(call.args.input_signal, call.args.sample_rate,
                                       call.args.A, call.args.dry_mix),
                 apply_multi_tap_delay(call.args.input_signal, call.args.sample_rate,
                                       call.args.B, call.args.dry_mix) >>
    /\ UNCHANGED call
    /\ dsp_frame

\* The single-tap scenario: one tap of 500 ms at -6 dB, dry and wet mix 1.0,
\* one second of constant input of amplitude 1.0.  The scenario's rate is
\* 44100 Hz, where the tap starts at index int(44100 * 0.5) = 22050; the
\* buffers are run at a tenth of that rate and lower, where the tap starts at
\* half the rate as well.
ScenarioTap == Gate("time_ms", 500, -600)

ScenarioRates == { 100, 1000, 4410 }

ScenarioInput(sample_rate) == [i \in 1..sample_rate |-> One]

ScenarioFunctions == { "apply_multi_tap_delay", "process_audio", "apply_delay_dsp" }

ScenarioLoad(fn, sample_rate) ==
    /\ entry = "scenario"
    /\ call = NoCall
    /\ call' = DspCall(fn, [sample_rate |-> sample_rate, taps |-> << ScenarioTap >>,
                            dry_mix |-> One, wet_mix |-> One])
    /\ ret' = << >>
    /\ dsp_frame

\* The scenario through the delay engine, the facade or the GUI's delay.
ScenarioRun ==
    /\ entry = "scenario"
    /\ call.fn \in ScenarioFunctions
    /\ ret = << >>
    /\ ret' = << CASE call.fn = "apply_multi_tap_delay" ->
                        apply_multi_tap_delay(ScenarioInput(call.args.sample_rate),
                                              call.args.sample_rate, call.args.taps,
                                              call.args.dry_mix)
                   [] call.fn = "process_audio" ->
                        process_audio("delay", call.args.taps, call.args.dry_mix,
                                      call.args.wet_mix, 400,
                                      ScenarioInput(call.args.sample_rate),
                                      call.args.sample_rate).res
                   [] call.fn = "apply_delay_dsp" ->
                        apply_delay_dsp(ScenarioInput(call.args.sample_rate),
                                        call.args.taps, call.args.dry_mix,
                                        call.args.wet_mix, call.args.sample_rate) >>
    /\ UNCHANGED call
    /\ dsp_frame

\* Inputs of a filter called on its own: the input signals, an impulse, a
\* longer signal; delay lines shorter and longer than the input; gains inside
\* and outside the stable range.
FilterSignals ==
    Signals \cup { << One, 0, 0, 0, 0 >>, << 600, -1500, 250, -40, 900, 0 >> }

FilterGains == { -700, 0, 500, 700, 980, 1200 }

FilterLoad(fn, sig, delay_samples, gain) ==
    /\ entry = "filters"
    /\ call = NoCall
    /\ call' = DspCall(fn, [input_signal |-> sig, delay_samples |-> delay_samples,
                            gain |-> gain])
    /\ ret' = << >>
    /\ dsp_frame

CombRun ==
    /\ entry = "filters"
    /\ call.fn = "comb_filter"
    /\ ret = << >>
    /\ ret' = << comb_filter(call.args.input_signal, call.args.delay_samples,
                             call.args.gain) >>
    /\ UNCHANGED call
    /\ dsp_frame

AllpassRun ==
    /\ entry = "filters"
    /\ call.fn = "allpass_filter"
    /\ ret = << >>
    /\ ret' = << allpass_filter(call.args.input_signal, call.args.delay_samples,
                                call.args.gain) >>
    /\ UNCHANGED call
    /\ dsp_frame

\* The conversions of a time to a sample count, each on its own: the tap
\* shift (time in ms), the comb and allpass delay and the mean comb delay
\* (times in tenths of a millisecond).
ConversionRates == { 100, 8000, 44100, 48000 }

TapTimes == { 0, 7, 10, 15, 333, 500 }

FilterTimes ==
    { comb_delays[k] : k \in 1..Len(comb_delays) }
        \cup { allpass_delays[k] : k \in 1..Len(allpass_delays) }

ConversionLoad(fn, sample_rate, t) ==
    /\ entry = "conversion"
    /\ call = NoCall
    /\ call' = DspCall(fn, [sample_rate |-> sample_rate, time |-> t])
    /\ ret' = << >>
    /\ dsp_frame

TapShiftRun ==
    /\ entry = "conversion"
    /\ call.fn = "tap_shift"
    /\ ret = << >>
    /\ ret' = << MsToSamples(call.args.sample_rate, call.args.time) >>
    /\ UNCHANGED call
    /\ dsp_frame

FilterDelayRun ==
    /\ entry = "conversion"
    /\ call.fn \in { "filter_delay", "mean_comb_delay" }
    /\ ret = << >>
    /\ ret' = << TenthMsToSamples(call.args.sample_rate, call.args.time) >>
    /\ UNCHANGED call
    /\ dsp_frame

\* A loud gate: 300 ms at +6 dB.
gateD == Gate("decay_ms", 300, 600)

\* Gate lists of the reverb engine called on its own: gains above, at and
\* below 0 dB, none with decay 0.
InstanceGateLists ==
    { << gateD >>, << gateA, gateD >>, << Gate("decay_ms", 700, 0), gateB >>,
      << gateD, gateD, gateA >> }

InstanceRates == { 100, 200, 1000 }

InstanceTailFactors == { 0, 400, 1000 }

\* The arguments of one call of the reverb engine, or of schroeder_reverb on
\* the first gate of the list.
InstanceLoad(fn, sig, sample_rate, gs, dry, tf) ==
    /\ entry = "instances"
    /\ call = NoCall
    /\ call' = DspCall(fn, [input_signal |-> sig, sample_rate |-> sample_rate,
                            gates |-> gs, dry_mix |-> dry, tail_factor |-> tf])
    /\ ret' = << >>
    /\ dsp_frame

InstanceRunEngine ==
    /\ entry = "instances"
    /\ call.fn = "apply_multi_instance_reverb"
    /\ ret = << >>
    /\ ret' = << apply_multi_instance_reverb(call.args.input_signal,
                                             call.args.sample_rate, call.args.gates,
                                             call.args.dry_mix, call.args.tail_factor) >>
    /\ UNCHANGED call
    /\ dsp_frame

InstanceRunSchroeder ==
    /\ entry = "instances"
    /\ call.fn = "schroeder_reverb"
    /\ ret = << >>
    /\ ret' = << schroeder_reverb(call.args.input_signal, call.args.sample_rate,
                                  call.args.gates[1].ms,
                                  ReverbGain(call.args.gates[1].gain_db)) >>
    /\ UNCHANGED call
    /\ dsp_frame

\* schroeder_reverb run one loop iteration at a time.  ret holds one frame:
\* stage is the filter bank at work ("comb", "allpass", "done"), k the index
\* into its delay table, running whether a filter call is active; input is
\* the signal the bank filters, acc the sum of the comb outputs; and
\* delay_samples, buffer, buffer_idx, i, output are the locals of the active
\* filter call (i counts samples from 1, buffer_idx from 0).
RingRates == { 1, 100, 200, 1000 }

RingFrame(stage, k, input, acc) ==
    [stage |-> stage, k |-> k, running |-> FALSE, input |-> input, acc |-> acc,
     delay_samples |-> 0, buffer |-> << >>, buffer_idx |-> 0, i |-> 0,
     output |-> << >>, exc |-> "none"]

RingTable(stage) == IF stage = "comb" THEN comb_delays ELSE allpass_delays

RingGain(stage) ==
    IF stage = "comb"
    THEN FeedbackGain(call.args.sample_rate, call.args.decay_time_ms)
    ELSE allpass_gain

\* The guard of both filter loops with the test left out.
RunsFilterAlways(delay_samples) == TRUE

\* if delay_samples > 0:
RunsFilter(delay_samples) == delay_samples > 0

\* schroeder_reverb(input_signal, sample_rate, decay_time_ms) is entered with
\* initial_gain = 1.0; parallel_comb_filters starts on the scaled input.
RingLoad(sig, sample_rate, decay_time_ms) ==
    /\ entry = "ring"
    /\ call = NoCall
    /\ call' = DspCall("schroeder_reverb",
                       [input_signal |-> sig, sample_rate |-> sample_rate,
                        decay_time_ms |-> decay_time_ms])
    /\ ret' = << RingFrame("comb", 1, Scale(sig, One), Zeros(Len(sig))) >>
    /\ dsp_frame

\* One pass of "for delay_ms in ...": the delay in samples, then the filter
\* call (its buffer zeroed, its cursor at 0) or the skip.
RingStartFilter ==
    /\ entry = "ring" /\ ret # << >>
    /\ ret[1].stage \in { "comb", "allpass" }
    /\ ~ret[1].running /\ ret[1].exc = "none"
    /\ ret[1].k <= Len(RingTable(ret[1].stage))
    /\ LET D == TenthMsToSamples(call.args.sample_rate,
                                 RingTable(ret[1].stage)[ret[1].k])
       IN  ret' = IF RunsFilter(D)
                  THEN << [ret[1] EXCEPT !.running = TRUE, !.delay_samples = D,
                                         !.buffer = Zeros(D), !.buffer_idx = 0,
                                         !.i = 1,
                                         !.output = Zeros(Len(ret[1].input))] >>
                  ELSE << [ret[1] EXCEPT !.k = ret[1].k + 1] >>
    /\ UNCHANGED call
    /\ dsp_frame

\* The body of the sample loop of the active filter, for one sample.
RingSample(f, g) ==
    LET delayed == f.buffer[f.buffer_idx + 1]
        x == f.input[f.i]
        y == IF f.stage = "comb" THEN x + Mul(g, delayed)
             ELSE Mul(-g, x) + delayed
        stored == IF f.stage = "comb" THEN y ELSE x + Mul(g, y)
    IN  [f EXCEPT !.buffer = [f.buffer EXCEPT ![f.buffer_idx + 1] = stored],
                  !.output = [f.output EXCEPT ![f.i] = y],
                  !.buffer_idx = (f.buffer_idx + 1) % f.delay_samples,
                  !.i = f.i + 1]

\* One iteration of the sample loop.  On an empty buffer the read is out of
\* range and the cursor update divides by zero: the call ends in one of the
\* two errors.
RingFilterStep ==
    /\ entry = "ring" /\ ret # << >>
    /\ ret[1].running /\ ret[1].exc = "none"
    /\ ret[1].i <= Len(ret[1].input)
    /\ IF ret[1].delay_samples < 1
       THEN \E e \in { "IndexError", "ZeroDivisionError" } :
               ret' = << [ret[1] EXCEPT !.exc = e] >>
       ELSE ret' = << RingSample(ret[1], RingGain(ret[1].stage)) >>
    /\ UNCHANGED call
    /\ dsp_frame

\* The filter call returns: a comb output is added to the sum, an allpass
\* output becomes the signal of the next allpass.
RingEndFilter ==
    /\ entry = "ring" /\ ret # << >>
    /\ ret[1].running /\ ret[1].exc = "none"
    /\ ret[1].i > Len(ret[1].input)
    /\ ret' = << IF ret[1].stage = "comb"
                 THEN [ret[1] EXCEPT !.running = FALSE, !.k = ret[1].k + 1,
                                     !.acc = [n \in 1..Len(ret[1].acc) |->
                                                ret[1].acc[n] + ret[1].output[n]]]
                 ELSE [ret[1] EXCEPT !.running = FALSE, !.k = ret[1].k + 1,
                                     !.input = ret[1].output] >>
    /\ UNCHANGED call
    /\ dsp_frame

\* The end of a filter bank: the comb sum is averaged and handed to the
\* allpass chain; the allpass chain's signal is the reverb output.
RingEndStage ==
    /\ entry = "ring" /\ ret # << >>
    /\ ret[1].stage \in { "comb", "allpass" }
    /\ ~ret[1].running /\ ret[1].exc = "none"
    /\ ret[1].k > Len(RingTable(ret[1].stage))
    /\ ret' = << IF ret[1].stage = "comb"
                 THEN RingFrame("allpass", 1,
                                [n \in 1..Len(ret[1].acc) |->
                                    TDiv(ret[1].acc[n], Len(comb_delays))],
                                ret[1].acc)
                 ELSE [RingFrame("done", ret[1].k, ret[1].input, ret[1].acc)
                          EXCEPT !.output = ret[1].input] >>
    /\ UNCHANGED call
    /\ dsp_frame

DspNext ==
    \/ \E buf \in Buffers : NormalizerLoad(buf)
    \/ NormalizerPass
    \/ \E sig \in Signals, sr \in SampleRates, gs \in TapLists, dry \in Mixes :
          \E p \in Orders(Len(gs)) :
             OrderLoad("apply_multi_tap_delay", sig, sr, gs, p, dry, 0)
    \/ \E sig \in Signals, sr \in SampleRates, gs \in ReverbGateLists, dry \in Mixes :
          \E p \in Orders(Len(gs)), tf \in TailFactors :
             OrderLoad("apply_multi_instance_reverb", sig, sr, gs, p, dry, tf)
    \/ OrderRunDelay
    \/ OrderRunReverb
    \/ \E sig \in Signals, sr \in SampleRates, A \in TapSets, B \in TapSets, dry \in Mixes :
          SplitLoad(sig, sr, A, B, dry)
    \/ SplitRun
    \/ \E fn \in ScenarioFunctions, sr \in ScenarioRates : ScenarioLoad(fn, sr)
    \/ ScenarioRun
    \/ \E fn \in { "comb_filter", "allpass_filter" }, sig \in FilterSignals,
          D \in 1..MaxDelay, g \in FilterGains : FilterLoad(fn, sig, D, g)
    \/ CombRun
    \/ AllpassRun
    \/ \E sr \in ConversionRates, t \in TapTimes : ConversionLoad("tap_shift", sr, t)
    \/ \E sr \in ConversionRates, t \in FilterTimes :
          ConversionLoad("filter_delay", sr, t)
    \/ \E sr \in ConversionRates : ConversionLoad("mean_comb_delay", sr, mean_comb_delay)
    \/ TapShiftRun
    \/ FilterDelayRun
    \/ \E fn \in { "apply_multi_instance_reverb", "schroeder_reverb" },
          sig \in FilterSignals, sr \in InstanceRates, gs \in InstanceGateLists,
          dry \in { 0, One }, tf \in InstanceTailFactors :
          InstanceLoad(fn, sig, sr, gs, dry, tf)
    \/ InstanceRunEngine
    \/ InstanceRunSchroeder
    \/ \E sig \in FilterSignals, sr \in RingRates : RingLoad(sig, sr, gateA.ms)
    \/ RingStartFilter
    \/ RingFilterStep
    \/ RingEndFilter
    \/ RingEndStage

SpecDsp == DspInit /\ [][DspNext]_vars

\* ------------------------------------------------------------ properties
\* The facade's and the GUI's process calls.
FacadeCall == last.op = "process_audio"

GuiCall == last.op \in { "process_and_play", "toggle_mode" }

\* The most recent operation handed a buffer back (it did not raise).
Ok == last.res.exc = "none"

out == last.res.out

\* Every sample of buf lies in [-1.0, 1.0].
Unclipped(buf) == \A i \in 1..Len(buf) : Abs(buf[i]) <= One

\* buf is sig * mix on the first len(sig) samples and zero after them.
DryOnly(buf, sig, mix) ==
    /\ Len(buf) >= Len(sig)
    /\ \A i \in 1..Len(buf) : buf[i] = IF i <= Len(sig) THEN Mul(sig[i], mix) ELSE 0

\* The gates the GUI derives from the canvas in reverb mode.
GuiReverbGates == [k \in 1..Len(gate_coords) |-> ReverbGateOf(gate_coords[k])]

GuiDelayTaps == [k \in 1..Len(gate_coords) |-> DelayTapOf(gate_coords[k])]

\* C1 (as claimed): every buffer a process call returns (facade
\* process_audio, GUI delay, GUI reverb), for any gate list, empty and
\* all-filtered ones included, and any mix in [0,1], has all samples in
\* [-1.0, 1.0].
C1_NoClipping == ((FacadeCall \/ GuiCall) /\ Ok) => Unclipped(out)

\* C2 (as claimed): with wetMix = 0 and a non-empty gate list, in both modes
\* the returned buffer is input * dryMix on the first len(input) samples and
\* zero after them, for inputs with peak * dryMix <= 1.
C2_DryOnly ==
    /\ (FacadeCall /\ Ok /\ wet_mix = 0 /\ Len(gates) > 0
            /\ Peak(audio_data) * dry_mix <= One * One)
        => DryOnly(out, audio_data, dry_mix)
    /\ (GuiCall /\ Ok /\ KnobMix(wet_knob) = 0
            /\ Peak(audio_data) * KnobMix(dry_knob) <= One * One)
        => DryOnly(out, audio_data, KnobMix(dry_knob))

\* C3 (as claimed): the multi-instance reverb called with an empty gate list,
\* or through the GUI with every gate filtered out, returns normally a buffer
\* equal to the input.
C3_ZeroGatesIdentity ==
    /\ (last.op = "apply_multi_instance_reverb" /\ Len(gates) = 0)
        => (Ok /\ out = audio_data)
    /\ (GuiCall /\ last.pipeline = "reverb" /\ ActiveGates(GuiReverbGates) = << >>)
        => (Ok /\ out = audio_data)

\* C4 (as claimed): the multi-tap delay called with an empty tap list returns
\* normally with tail_samples = 0: a buffer of len(input) samples equal to
\* input * dryMix.
C4_ZeroTaps ==
    (last.op = "apply_multi_tap_delay" /\ Len(gates) = 0)
        => (Ok /\ last.res.tail = 0 /\ Len(out) = Len(audio_data)
               /\ DryOnly(out, audio_data, dry_mix))

\* C5: every buffer a process call or an engine returns has length
\* len(input) + tail_samples with tail_samples >= 0, so it is never shorter
\* than the input.
C5_OutputLength ==
    (last.op # "none" /\ last.op # "set_mode" /\ Ok)
        => /\ last.res.tail >= 0
           /\ Len(out) = Len(audio_data) + last.res.tail
           /\ Len(out) >= Len(audio_data)

\* C5 witness: a call returned a buffer with a tail after the input.
C5_Witness ==
    /\ FacadeCall /\ Ok /\ last.pipeline = "reverb"
    /\ last.res.tail > 0 /\ Len(out) > Len(audio_data)

\* C6 (as claimed): the facade's mode is 'delay' or 'reverb' in every state,
\* after construction with any mode argument and any set_mode calls.
C6_ModeIsDelayOrReverb == entry = "facade" => mode \in { "delay", "reverb" }

\* C7: a process call with a non-empty gate list runs the pipeline of the
\* mode set by the most recent successful switch, on the current gates and
\* mix: the delay engine if that mode is delay, the reverb engine if reverb.
C7_DispatchFollowsMode ==
    /\ (FacadeCall /\ Len(gates) > 0 /\ switched # "none")
        => /\ last.pipeline = switched
           /\ switched = "delay" =>
                last.res = ApplyWetMix(apply_multi_tap_delay(audio_data, fs, gates,
                                                             dry_mix), wet_mix)
           /\ switched = "reverb" =>
                last.res = ApplyWetMix(apply_multi_instance_reverb(audio_data, fs, gates,
                                                                   dry_mix, tail_factor),
                                       wet_mix)
    /\ (GuiCall /\ switched # "none")
        => /\ last.pipeline = switched
           /\ switched = "delay" =>
                last.res = apply_delay_dsp(audio_data, GuiDelayTaps, KnobMix(dry_knob),
                                           KnobMix(wet_knob), fs)
           /\ switched = "reverb" =>
                last.res = apply_reverb_dsp(audio_data, GuiReverbGates, KnobMix(dry_knob),
                                            KnobMix(wet_knob), fs, tail_factor)

\* C7 witness: the facade was switched to reverb and a process call with
\* gates then ran the reverb pipeline and returned.
C7_Witness ==
    /\ FacadeCall /\ Ok /\ Len(gates) > 0
    /\ switched = "reverb" /\ last.pipeline = "reverb"

\* C8 (as claimed): a step that switches the mode, in the facade or in the
\* GUI, runs no pipeline, writes and plays nothing and leaves the gates, the
\* mix levels and tail_factor as they were.
C8_SwitchOnlyChangesMode ==
    [][(mode' # mode \/ current_mode' # current_mode)
          => /\ last'.pipeline = "none"
             /\ last'.wrote = "none"
             /\ UNCHANGED << gates, dry_mix, wet_mix, tail_factor,
                             gate_coords, dry_knob, wet_knob >>]_vars

\* C8 (amended): a facade set_mode that switches the mode runs no pipeline,
\* writes nothing and leaves gates, mix and tail_factor unchanged; a GUI
\* toggle_mode leaves gate positions, knobs and tail_factor unchanged but
\* runs the pipeline of the new mode at once and writes and plays that mode's
\* output file exactly when the pipeline returns (nothing when it raises).
C8_SwitchEffects ==
    [][/\ mode' # mode
          => /\ last' = Quiet
             /\ UNCHANGED << gates, dry_mix, wet_mix, tail_factor >>
       /\ current_mode' # current_mode
          => /\ UNCHANGED << gate_coords, dry_knob, wet_knob, tail_factor >>
             /\ last'.op = "toggle_mode"
             /\ last'.pipeline = current_mode'
             /\ last'.wrote = IF last'.res.exc # "none" THEN "none"
                              ELSE IF current_mode' = "delay" THEN "delay_output_file"
                              ELSE "reverb_output_file"]_vars

\* C8 witness: the GUI was toggled to reverb and the toggle itself ran the
\* reverb pipeline and wrote the reverb output file.
C8_Witness ==
    /\ last.op = "toggle_mode" /\ current_mode = "reverb"
    /\ last.pipeline = "reverb" /\ last.wrote = "reverb_output_file"

\* C9: every feedback gain that schroeder_reverb hands to the comb filters
\* lies in [0, 0.98].
C9_FeedbackGainBounded == \A g \in last.res.fb : 0 <= g /\ g <= 980

\* C9 witness: a reverb call returned whose raw feedback gain exceeded 0.98
\* and was handed to the comb filters as 0.98.
C9_Witness ==
    /\ Ok /\ last.pipeline = "reverb"
    /\ last.res.fb # {}
    /\ 980 \in last.res.fb

\* C10: each mapper returns, for every position inside or outside the frame,
\* a gate with time in [0, max] (4000 ms delay, 10000 ms reverb) and gain_db in
\* [-60, +3.5] dB (delay) or [-60, 0] dB (reverb).
C10_MapperInRange ==
    \A k \in 1..Len(figma_out) :
        LET gate == figma_out[k]
        IN  IF figma_in[k].mapper = "figma_to_delay_params"
            THEN /\ gate.key = "time_ms"
                 /\ 0 <= gate.ms /\ gate.ms <= 4000
                 /\ -6000 <= gate.gain_db /\ gate.gain_db <= 350
            ELSE /\ gate.key = "decay_ms"
                 /\ 0 <= gate.ms /\ gate.ms <= 10000
                 /\ -6000 <= gate.gain_db /\ gate.gain_db <= 0

\* C10 witness: a position right of and above the frame was mapped to the
\* largest time and the gain ceiling of the delay mapper.
C10_Witness ==
    /\ Len(figma_out) = 1
    /\ figma_in[1].mapper = "figma_to_delay_params"
    /\ figma_in[1].x_pos > figma_in[1].frame_width
    /\ figma_in[1].y_pos < 0
    /\ figma_out[1].ms = 4000
    /\ figma_out[1].gain_db = 350

\* C11: the peak normalizer is idempotent: a second (and any later) pass over a
\* buffer hands back what the first pass handed back, and a buffer whose peak
\* is at most 1.0, silence included, is handed back unchanged.
C11_NormalizeIdempotent ==
    call.fn = "normalize" =>
        /\ \A k \in 2..Len(ret) : ret[k] = ret[1]
        /\ (Len(ret) >= 1 /\ Peak(call.args) <= One) => ret[1] = call.args

\* C11 witness: a buffer over full scale was scaled by the first pass and left
\* alone by the second.
C11_Witness ==
    /\ call.fn = "normalize" /\ Len(ret) >= 2
    /\ Peak(call.args) > One
    /\ ret[1] # call.args /\ Peak(ret[1]) = One
    /\ ret[2] = ret[1]

AdditiveAt(n) ==
    ret[1].out[n] = ret[2].out[n] + ret[3].out[n]
                    - (IF n <= Len(call.args.input_signal)
                       THEN Mul(call.args.input_signal[n], call.args.dry_mix) ELSE 0)

\* The indices present in all three buffers.
CommonIndices == 1..Min2(Len(ret[1].out), Min2(Len(ret[2].out), Len(ret[3].out)))

\* The sum of the linear gains of a tap list.
RECURSIVE GainSum(_)
GainSum(taps) ==
    IF taps = << >> THEN 0 ELSE DbToLinear(Head(taps).gain_db) + GainSum(Tail(taps))

\* C13 (as claimed): for two disjoint tap sets A and B, the same input and
\* dryMix, on every index present in all three buffers
\* delay(A union B)[n] = delay(A)[n] + delay(B)[n] - dryMix * input[n].
C13_Additive ==
    (entry = "additivity" /\ ret # << >>) => \A n \in CommonIndices : AdditiveAt(n)

\* C13 (amended): for two disjoint non-empty tap sets A and B whose gains and
\* dryMix leave every sum at or under full scale, peak(input) * (dryMix + sum
\* of the linear gains of A and B) <= 1.0, so that the normalizer rescales
\* none of the three buffers, all three calls return and the equality holds
\* on every index present in all three buffers.
C13_AdditiveUnnormalized ==
    (entry = "additivity" /\ ret # << >>
        /\ Len(call.args.A) > 0 /\ Len(call.args.B) > 0
        /\ Peak(call.args.input_signal)
             * (call.args.dry_mix + GainSum(call.args.A \o call.args.B)) <= One * One)
    => /\ \A i \in 1..3 : ret[i].exc = "none"
       /\ \A n \in CommonIndices : AdditiveAt(n)

\* C13 witness: two disjoint tap sets, a dry signal and three samples of
\* input, no rescaling, and the taps of both sets reach the compared indices.
C13_Witness ==
    /\ entry = "additivity" /\ ret # << >>
    /\ Len(call.args.A) > 0 /\ Len(call.args.B) > 0
    /\ call.args.dry_mix > 0
    /\ Len(call.args.input_signal) >= 2
    /\ Peak(call.args.input_signal)
         * (call.args.dry_mix + GainSum(call.args.A \o call.args.B)) <= One * One
    /\ \E n \in CommonIndices :
         /\ ret[2].out[n] # Mul(call.args.input_signal[n], call.args.dry_mix)
         /\ ret[3].out[n] # Mul(call.args.input_signal[n], call.args.dry_mix)
         /\ AdditiveAt(n)

\* The scenario ran: the tap starts at index ScenarioShift (counted from 0),
\* ScenarioStep is the step of the returned buffer from the sample before it.
ScenarioRan == entry = "scenario" /\ ret # << >>

ScenarioShift == MsToSamples(call.args.sample_rate, 500)

ScenarioStep == ret[1].out[ScenarioShift + 1] - ret[1].out[ScenarioShift]

\* C14 (as claimed): in the single-tap scenario the returned buffer steps up by
\* about 0.501 (10^(-6/20)) between index 22049 and index 22050 (where the tap
\* starts: half the rate), and its peak is at most 1.0.
C14_StepIsTapGain ==
    ScenarioRan =>
        /\ ret[1].exc = "none"
        /\ 496 <= ScenarioStep /\ ScenarioStep <= 506
        /\ Peak(ret[1].out) <= One

\* C14 (amended): in the single-tap scenario the sum peaks at 1.501 where dry
\* signal and tap overlap, so the whole buffer is divided by 1.501: the
\* returned buffer is about 0.666 before the tap starts and 1.0 from there, a
\* step of about 0.334 (0.501 / 1.501) between index 22049 and index 22050
\* (half the rate), and its peak is 1.0.
C14_StepIsNormalized ==
    ScenarioRan =>
        /\ ret[1].exc = "none"
        /\ Len(ret[1].out) = call.args.sample_rate + ret[1].tail
        /\ 665 <= ret[1].out[ScenarioShift] /\ ret[1].out[ScenarioShift] <= 667
        /\ ret[1].out[ScenarioShift + 1] = One
        /\ 333 <= ScenarioStep /\ ScenarioStep <= 335
        /\ Peak(ret[1].out) = One

\* C14 witness: the scenario through the delay engine at 4410 Hz, a second of
\* input and a second of tail, with the step where the tap starts (index
\* 2205; index 22050 at 44100 Hz).
C14_Witness ==
    /\ ScenarioRan
    /\ call.fn = "apply_multi_tap_delay"
    /\ call.args.sample_rate = 4410
    /\ ScenarioShift = 2205
    /\ MsToSamples(44100, ScenarioTap.ms) = 22050
    /\ Len(ret[1].out) = 4410 + 4410
    /\ ScenarioStep > 0

\* Some gate of the list has time (time_ms or decay_ms) zero.
HasZeroTime(gs) == \E k \in 1..Len(gs) : gs[k].ms = 0

\* C15 (as claimed): zero time values never surface as errors: a call whose
\* gate list holds a delay tap with time_ms = 0 or a reverb gate with
\* decay_ms = 0 is processed to completion and returns a buffer, through the
\* engines, the facade and the GUI.
C15_ZeroTimesReturn ==
    /\ (last.op \in { "apply_multi_tap_delay", "process_audio" }
            /\ last.pipeline = "delay"
            /\ HasKey(gates, "time_ms") /\ HasZeroTime(gates))
        => Ok
    /\ (last.op \in { "apply_multi_instance_reverb", "process_audio" }
            /\ last.pipeline = "reverb"
            /\ HasKey(gates, "decay_ms") /\ HasZeroTime(gates))
        => Ok
    /\ (GuiCall /\ last.pipeline = "delay" /\ HasZeroTime(GuiDelayTaps)) => Ok
    /\ (GuiCall /\ last.pipeline = "reverb" /\ HasZeroTime(ActiveGates(GuiReverbGates)))
        => Ok

\* A filter called on its own has returned.
FilterRan(fn) == entry = "filters" /\ call.fn = fn /\ ret # << >>

\* x[n - D] and y[n - D] of a filter run, n counted from 1; zero before the
\* first sample.
DelayedIn(n) ==
    IF n > call.args.delay_samples
    THEN call.args.input_signal[n - call.args.delay_samples] ELSE 0

DelayedOut(n) ==
    IF n > call.args.delay_samples THEN ret[1][n - call.args.delay_samples] ELSE 0

\* C16: the circular-buffer comb filter refines y[n] = x[n] + g*y[n-D] with
\* y[k] = 0 for k < 0: for every input, every D >= 1 (D >= len(input)
\* included) and every g the output has the input's length and every sample
\* of it satisfies the recurrence.
C16_CombRecurrence ==
    FilterRan("comb_filter") =>
        /\ Len(ret[1]) = Len(call.args.input_signal)
        /\ \A n \in 1..Len(ret[1]) :
              ret[1][n] = call.args.input_signal[n] + Mul(call.args.gain, DelayedOut(n))

\* C16 witness: a comb filter whose delay line wrapped at least twice, with
\* feedback reaching the last sample.
C16_Witness ==
    /\ FilterRan("comb_filter")
    /\ call.args.gain # 0
    /\ Len(ret[1]) > 2 * call.args.delay_samples
    /\ ret[1][Len(ret[1])] # call.args.input_signal[Len(ret[1])]

\* C17: the circular-buffer allpass filter refines
\* y[n] = -g*x[n] + x[n-D] + g*y[n-D] with x[k] = y[k] = 0 for k < 0: for
\* every input, every D >= 1 and every g the output has the input's length
\* and every sample of it satisfies the recurrence.
C17_AllpassRecurrence ==
    FilterRan("allpass_filter") =>
        /\ Len(ret[1]) = Len(call.args.input_signal)
        /\ \A n \in 1..Len(ret[1]) :
              ret[1][n] = Mul(-call.args.gain, call.args.input_signal[n])
                          + DelayedIn(n) + Mul(call.args.gain, DelayedOut(n))

\* C17 witness: an allpass filter whose delay line wrapped at least twice, on
\* an input whose delayed samples and delayed outputs are not zero.
C17_Witness ==
    /\ FilterRan("allpass_filter")
    /\ call.args.gain # 0
    /\ Len(ret[1]) > 2 * call.args.delay_samples
    /\ DelayedIn(Len(ret[1])) # 0
    /\ DelayedOut(Len(ret[1])) # 0

\* A conversion has returned its sample count.
Converted == entry = "conversion" /\ ret # << >>

\* The exact value sampleRate * ms / 1000 of a conversion as the fraction
\* ConversionNum / ConversionDen.
ConversionNum == call.args.sample_rate * call.args.time

ConversionDen == IF call.fn = "tap_shift" THEN 1000 ELSE 10000

\* C18: every conversion of a time to a sample count (tap shift, comb and
\* allpass delay, mean comb delay) returns the integer nearest to
\* sampleRate * ms / 1000: the result is at most half a sample away from it.
C18_ConversionRounds ==
    Converted =>
        /\ 2 * (ConversionNum - ret[1] * ConversionDen) <= ConversionDen
        /\ 2 * (ret[1] * ConversionDen - ConversionNum) <= ConversionDen

\* The delay engine of the facade or of a script returned a buffer.
EngineDelayRan ==
    /\ Ok
    /\ \/ FacadeCall /\ last.pipeline = "delay"
       \/ last.op = "apply_multi_tap_delay"

\* The delay pipeline of the GUI returned a buffer.
GuiDelayRan == GuiCall /\ Ok /\ last.pipeline = "delay"

\* C19: no delay tap is skipped or truncated.  In apply_multi_tap_delay every
\* tap's slice [shift, shift + len(input)) lies inside the output, for every
\* sample rate from 1 up; in the GUI every tap passes the test
\* shift + len(input) < len(output) that guards its addition; the tap with the
\* largest time included.
C19_NoTapSkipped ==
    /\ EngineDelayRan =>
          \A k \in 1..Len(gates) :
              MsToSamples(fs, gates[k].ms) + Len(audio_data) <= Len(out)
    /\ GuiDelayRan =>
          \A k \in 1..Len(GuiDelayTaps) :
              MsToSamples(fs, GuiDelayTaps[k].ms) + Len(audio_data) < Len(out)

\* C19 witness: the GUI delay ran on several taps, the latest of them
\* shifted by at least one sample.
C19_Witness ==
    /\ GuiDelayRan
    /\ Len(GuiDelayTaps) >= 2
    /\ MsToSamples(fs, MaxMs(GuiDelayTaps)) > 0
    /\ \E k \in 1..Len(GuiDelayTaps) : GuiDelayTaps[k].ms < MaxMs(GuiDelayTaps)

\* The number of gates of gs at or above the -50 dB floor.
RECURSIVE AtOrAboveFloor(_)
AtOrAboveFloor(gs) ==
    IF Len(gs) = 0 THEN 0
    ELSE (IF Head(gs).gain_db >= -5000 THEN 1 ELSE 0) + AtOrAboveFloor(Tail(gs))

\* C20 (as claimed): on every path into the multi-instance reverb (facade
\* and GUI) exactly the gates below -50 dB are removed: the reverb runs one
\* instance for each gate with gain_db >= -50 and none for the others.
C20_FloorFilter ==
    /\ (FacadeCall /\ Ok /\ last.pipeline = "reverb")
        => Len(last.res.gains) = AtOrAboveFloor(gates)
    /\ (GuiCall /\ Ok /\ last.pipeline = "reverb")
        => Len(last.res.gains) = AtOrAboveFloor(GuiReverbGates)

\* The reverb engine called on its own has returned a buffer.
InstancesRan ==
    /\ entry = "instances" /\ call.fn = "apply_multi_instance_reverb"
    /\ ret # << >> /\ ret[1].exc = "none"

\* C21: every gate of the multi-instance reverb is processed with the input
\* gain 10^(gain_db/20) clamped to [0,1]: one instance per gate, a gate with
\* gain_db >= 0 at exactly 1.0, none above 1.0 or below 0.
C21_GainClamped ==
    InstancesRan =>
        /\ Len(ret[1].gains) = Len(call.args.gates)
        /\ \A k \in 1..Len(call.args.gates) :
              /\ ret[1].gains[k] >= 0 /\ ret[1].gains[k] <= One
              /\ ret[1].gains[k] = Clip(DbToLinear(call.args.gates[k].gain_db), 0, One)
              /\ call.args.gates[k].gain_db >= 0 => ret[1].gains[k] = One

\* C21 witness: a gate at +6 dB (linear gain 1.996) ran at 1.0 next to a gate
\* below 0 dB that kept its gain.
C21_Witness ==
    /\ InstancesRan
    /\ \E k \in 1..Len(call.args.gates) :
          /\ DbToLinear(call.args.gates[k].gain_db) > One
          /\ ret[1].gains[k] = One
    /\ \E k \in 1..Len(call.args.gates) :
          /\ ret[1].gains[k] > 0 /\ ret[1].gains[k] < One

\* apply_multi_instance_reverb up to its peak check: the dry signal plus the
\* reverb of every gate, as the loop leaves it, for a non-empty list of
\* reverb gates.
reverb_before_peak_check(input_signal, sample_rate, reverb_gates, dry, tf) ==
    gate_sum(input_signal, sample_rate, reverb_gates, 1,
             Result("none",
                    AddAt(Zeros(Len(input_signal)
                                + ReverbTail(sample_rate, MaxMs(reverb_gates), tf)),
                          0, Scale(input_signal, dry)),
                    ReverbTail(sample_rate, MaxMs(reverb_gates), tf),
                    {}, << >>))

\* The GUI reverb pipeline ran the engine and returned a buffer.
GuiReverbRan ==
    GuiCall /\ Ok /\ last.pipeline = "reverb" /\ ActiveGates(GuiReverbGates) # << >>

\* The engine's output of the GUI reverb call as its loop leaves it.
GuiRawReverb ==
    reverb_before_peak_check(audio_data, fs, ActiveGates(GuiReverbGates), 0,
                             tail_factor)

\* C22 (as claimed): in the reverb path the two peak checks are harmless: the
\* buffer the GUI returns (engine with its own peak check, then dry/wet mix,
\* then the final peak check) equals the buffer built from the engine's
\* output before its peak check, mixed and normalized once.
C22_DoubleNormalizeHarmless ==
    GuiReverbRan =>
        out = mix_reverb(audio_data,
                         reverb_before_peak_check(audio_data, fs,
                                                  ActiveGates(GuiReverbGates), 0,
                                                  tail_factor),
                         KnobMix(dry_knob), KnobMix(wet_knob)).out

\* C22 (amended): the two peak checks are harmless whenever the engine's
\* output before its own peak check has a peak of at most 1.0: then the
\* buffer the GUI returns equals the one mixed from the unnormalized engine
\* output and normalized once.
C22_HarmlessBelowFullScale ==
    (GuiReverbRan /\ Peak(GuiRawReverb.out) <= One) =>
        out = mix_reverb(audio_data, GuiRawReverb,
                         KnobMix(dry_knob), KnobMix(wet_knob)).out

\* C22 witness: the engine's output stayed below full scale, the mix of dry
\* and wet went above it and the final peak check brought it back to 1.0.
C22_Witness ==
    /\ GuiReverbRan
    /\ Peak(GuiRawReverb.out) <= One /\ Peak(GuiRawReverb.out) > 0
    /\ KnobMix(dry_knob) > 0 /\ KnobMix(wet_knob) > 0
    /\ Peak(audio_data) > One
    /\ Peak(out) = One

\* A filter call of the stepwise schroeder_reverb is active.
RingRunning == entry = "ring" /\ ret # << >> /\ ret[1].running

\* C23: no filter runs on an empty ring buffer.  Whenever comb_filter or
\* allpass_filter is active inside schroeder_reverb, delay_samples >= 1, the
\* buffer has delay_samples cells and the cursor satisfies
\* 0 <= buffer_idx < delay_samples; no step ends in an error.
C23_RingNeverEmpty ==
    /\ RingRunning =>
          /\ ret[1].delay_samples >= 1
          /\ Len(ret[1].buffer) = ret[1].delay_samples
          /\ ret[1].buffer_idx >= 0
          /\ ret[1].buffer_idx < ret[1].delay_samples
    /\ (entry = "ring" /\ ret # << >>) => ret[1].exc = "none"

\* C23 witness: at a sample rate where the second allpass delay converts to
\* 0 samples, the first allpass is active and its cursor has gone round the
\* buffer.
C23_Witness ==
    /\ RingRunning
    /\ ret[1].stage = "allpass" /\ ret[1].k = 1
    /\ TenthMsToSamples(call.args.sample_rate, allpass_delays[2]) = 0
    /\ ret[1].i > ret[1].delay_samples + 1
    /\ ret[1].buffer_idx = (ret[1].i - 1) % ret[1].delay_samples

\* The stepwise run ends with the buffer schroeder_reverb returns.
RingRefinesSchroeder ==
    (entry = "ring" /\ ret # << >> /\ ret[1].stage = "done") =>
        ret[1].output = schroeder_reverb(call.args.input_signal, call.args.sample_rate,
                                         call.args.decay_time_ms, One).out

\* schroeder_reverb called on its own has returned a buffer.
SchroederRan ==
    /\ entry = "instances" /\ call.fn = "schroeder_reverb"
    /\ ret # << >> /\ ret[1].exc = "none"

C25_ProcessReadOnly ==
    [][(entry = "facade" /\ last'.op = "process_audio")
          => UNCHANGED << mode, gates, dry_mix, wet_mix, tail_factor, audio_data >>]_vars

\* C25 witness: the facade processed several taps with both mixes turned
\* down and returned a buffer that differs from the input it was given.
C25_Witness ==
    /\ FacadeCall /\ Ok /\ last.pipeline = "delay"
    /\ Len(gates) >= 2
    /\ dry_mix < One /\ wet_mix < One /\ wet_mix > 0
    /\ Len(out) > Len(audio_data)
    /\ \E n \in 1..Len(audio_data) : out[n] # audio_data[n]

====
